---- MODULE Spec2Model ----
(***************************************************************************)
(* A model of qv_compress: vector quantization of PacBio quality values.   *)
(*                                                                         *)
(*   utils.py      spread_tag, remove_deletions_and_skips, fix_mergeqv,    *)
(*                 cmph5_chunker                                           *)
(*   code_book.py  make_data_clusterable, convert_to_raw,                  *)
(*                 check_for_features, read_cmph5, read_sam                *)
(*   quantize.py   get_code_indices, write_vqs_to_cmph5,                   *)
(*                 overwrite_qvs_cmph5_chunk, run_length_encode,           *)
(*                 add_vqs_to_file                                         *)
(*                                                                         *)
(* Matrices are sequences of rows, a row is a sequence of values, one per  *)
(* feature of the feature list.  numpy's float64 arithmetic is modelled    *)
(* as binary floating point with round-to-nearest-even on a significand of *)
(* FloatBits bits (float64 has 53).                                        *)
(***************************************************************************)
EXTENDS Integers, Sequences, FiniteSets, TLC

(***************************************************************************)
(* Floating point.  A float is [m, e] with value m * 2^e, where m = 0 or   *)
(* 2^(FloatBits-1) <= |m| < 2^FloatBits.  NaN is a value of its own.       *)
(***************************************************************************)
FloatBits == 13

FMin == 2 ^ (FloatBits - 1)

FMax == 2 ^ FloatBits

FZero == [m |-> 0, e |-> 0]

NaN == [m |-> 0, e |-> 1]

Abs(i) == IF i < 0 THEN 0 - i ELSE i

Sign(i) == IF i < 0 THEN 0 - 1 ELSE 1

\* The float nearest to (n / d) * 2^e, for n > 0 and d > 0; ties go to the
\* even significand.
RECURSIVE FRound(_, _, _)
FRound(n, d, e) ==
    IF n < FMin * d THEN FRound(2 * n, d, e - 1)
    ELSE IF n >= FMax * d THEN FRound(n, 2 * d, e + 1)
    ELSE LET q == n \div d
             r == n % d
             up == 2 * r > d \/ (2 * r = d /\ q % 2 = 1)
             q1 == IF up THEN q + 1 ELSE q
         IN IF q1 = FMax THEN [m |-> FMin, e |-> e + 1]
                         ELSE [m |-> q1, e |-> e]

FSigned(s, f) == [m |-> s * f.m, e |-> f.e]

FromInt(i) == IF i = 0 THEN FZero ELSE FSigned(Sign(i), FRound(Abs(i), 1, 0))

FNeg(a) == [m |-> 0 - a.m, e |-> a.e]

FAbs(a) == [m |-> Abs(a.m), e |-> a.e]

FMul(a, b) ==
    IF a.m = 0 \/ b.m = 0 THEN FZero
    ELSE FSigned(Sign(a.m) * Sign(b.m), FRound(Abs(a.m) * Abs(b.m), 1, a.e + b.e))

FDiv(a, b) ==
    IF a.m = 0 THEN FZero
    ELSE FSigned(Sign(a.m) * Sign(b.m), FRound(Abs(a.m), Abs(b.m), a.e - b.e))

\* a + b for a.e >= b.e; an addend below a quarter of a's last place is lost
FAddOrdered(a, b) ==
    LET d == a.e - b.e
    IN IF d > FloatBits + 1 THEN a
       ELSE LET n == a.m * (2 ^ d) + b.m
            IN IF n = 0 THEN FZero
               ELSE FSigned(Sign(n), FRound(Abs(n), 1, b.e))

FAdd(a, b) ==
    IF a.m = 0 THEN b
    ELSE IF b.m = 0 THEN a
    ELSE IF a.e >= b.e THEN FAddOrdered(a, b) ELSE FAddOrdered(b, a)

FSub(a, b) == FAdd(a, FNeg(b))

FLt(a, b) == FSub(a, b).m < 0

\* the largest q in lo..hi with q * q <= x
RECURSIVE ISqrt(_, _, _)
ISqrt(x, lo, hi) ==
    IF lo = hi THEN lo
    ELSE LET mid == (lo + hi + 1) \div 2
         IN IF mid * mid <= x THEN ISqrt(x, mid, hi) ELSE ISqrt(x, lo, mid - 1)

FSqrt(a) ==
    IF a.m = 0 THEN FZero
    ELSE LET s == IF (a.e - FloatBits) % 2 = 0 THEN FloatBits ELSE FloatBits - 1
             x == a.m * (2 ^ s)
             q == ISqrt(x, FMin, FMax - 1)
             q1 == IF x > q * q + q THEN q + 1 ELSE q
             e == (a.e - s) \div 2
         IN IF q1 = FMax THEN [m |-> FMin, e |-> e + 1]
                         ELSE [m |-> q1, e |-> e]

\* the integer part of a >= 0, as astype to an integer type truncates
FTrunc(a) ==
    IF a.e >= 0 THEN a.m * (2 ^ a.e)
    ELSE IF 0 - a.e > FloatBits THEN 0
    ELSE a.m \div (2 ^ (0 - a.e))

FOne == FromInt(1)

(***************************************************************************)
(* utils.py: the feature transforms.                                       *)
(***************************************************************************)
TAG_ASSIGNMENTS ==
    << <<45, 0>>, <<65, 1>>, <<67, 2>>, <<71, 3>>, <<78, 4>>, <<84, 5>> >>

\* list.index: the first position of name in feature_list, counted from 1
IndexOf(feature_list, name) ==
    CHOOSE i \in 1..Len(feature_list) :
        feature_list[i] = name /\ \A j \in 1..(i - 1) : feature_list[j] # name

Contains(feature_list, name) == \E i \in 1..Len(feature_list) : feature_list[i] = name

\* one pass of the loop of spread_tag: ary[:, tag_index][... == from] = to
ReplaceValue(ary, col, from, to) ==
    [r \in 1..Len(ary) |->
        [ary[r] EXCEPT ![col] = IF ary[r][col] = from THEN to ELSE ary[r][col]]]

\* the assignments are applied one after the other, each to the result of
\* the one before
RECURSIVE SpreadFrom(_, _, _, _)
SpreadFrom(ary, tag_index, inverse, k) ==
    IF k > Len(TAG_ASSIGNMENTS) THEN ary
    ELSE LET a == TAG_ASSIGNMENTS[k]
             next == IF inverse THEN ReplaceValue(ary, tag_index, a[2], a[1])
                                ELSE ReplaceValue(ary, tag_index, a[1], a[2])
         IN SpreadFrom(next, tag_index, inverse, k + 1)

spread_tag(ary, tag_index, inverse) == SpreadFrom(ary, tag_index, inverse, 1)

SkipValue == 0

DeletionValue == 255

\* numpy.delete of the rows whose sentinel is 0 or 255: the others, in order
RECURSIVE DeleteRows(_, _, _)
DeleteRows(ary, sentinel_index, r) ==
    IF r > Len(ary) THEN <<>>
    ELSE LET rest == DeleteRows(ary, sentinel_index, r + 1)
         IN IF ary[r][sentinel_index] = SkipValue
               \/ ary[r][sentinel_index] = DeletionValue
            THEN rest
            ELSE <<ary[r]>> \o rest

remove_deletions_and_skips(ary, sentinel_index) == DeleteRows(ary, sentinel_index, 1)

MergeReplacement == 30

fix_mergeqv(ary, merge_index, new_extreme_value) ==
    [r \in 1..Len(ary) |->
        [ary[r] EXCEPT ![merge_index] =
            IF ary[r][merge_index] >= new_extreme_value
            THEN MergeReplacement ELSE ary[r][merge_index]]]

(***************************************************************************)
(* code_book.py: make_data_clusterable and convert_to_raw.                 *)
(***************************************************************************)
\* std_dev=None
None == <<>>

\* the sum of column j of the first n rows
RECURSIVE ColumnSum(_, _, _)
ColumnSum(ary, j, n) ==
    IF n = 0 THEN FZero ELSE FAdd(ColumnSum(ary, j, n - 1), FromInt(ary[n][j]))

\* the sum over the first n rows of abs(x - mean) ** 2 in column j
RECURSIVE ColumnSumSqr(_, _, _, _)
ColumnSumSqr(ary, j, mean, n) ==
    IF n = 0 THEN FZero
    ELSE LET d == FAbs(FSub(FromInt(ary[n][j]), mean))
         IN FAdd(ColumnSumSqr(ary, j, mean, n - 1), FMul(d, d))

\* numpy.std of column j: sqrt(mean(abs(x - mean(x)) ** 2))
StdColumn(ary, j) ==
    LET n == Len(ary)
        mean == FDiv(ColumnSum(ary, j, n), FromInt(n))
    IN IF n = 0 THEN NaN
       ELSE FSqrt(FDiv(ColumnSumSqr(ary, j, mean, n), FromInt(n)))

\* numpy.std(ary, axis=0) of an integer-valued array: columns 1 to j
RECURSIVE numpy_std(_, _)
numpy_std(ary, j) ==
    IF j = 0 THEN <<>> ELSE Append(numpy_std(ary, j - 1), StdColumn(ary, j))

MergeExtreme == 40

\* an array that is the caller's training_array itself where the caller
\* has not asked for the rows to be removed
ArrayToFixShared(training_array, feature_list, remove_skips) ==
    IF remove_skips
    THEN [array |-> remove_deletions_and_skips(
                        training_array, IndexOf(feature_list, "InsertionQV")),
          shared |-> FALSE]
    ELSE [array |-> training_array, shared |-> TRUE]

\* the array that lines 35 to 40 change in place: what numpy.delete
\* returned or a copy of training_array, in both cases an array of its own
\* and not the one the caller holds
ArrayToFix(training_array, feature_list, remove_skips) ==
    IF remove_skips
    THEN [array |-> remove_deletions_and_skips(
                        training_array, IndexOf(feature_list, "InsertionQV")),
          shared |-> FALSE]
    ELSE [array |-> training_array, shared |-> FALSE]

\* the array as it stands before whitening: code_book.py lines 28 to 40
FixedArray(training_array, feature_list, remove_skips) ==
    LET a1 == ArrayToFix(training_array, feature_list, remove_skips).array
        a2 == IF Contains(feature_list, "DeletionTag")
              THEN spread_tag(a1, IndexOf(feature_list, "DeletionTag"), FALSE)
              ELSE a1
    IN IF Contains(feature_list, "MergeQV")
       THEN fix_mergeqv(a2, IndexOf(feature_list, "MergeQV"), MergeExtreme)
       ELSE a2

\* with no variance in a column its std_dev becomes 1
RECURSIVE FixStdDevTo(_, _)
FixStdDevTo(std_dev, i) ==
    IF i = 0 THEN <<>>
    ELSE Append(FixStdDevTo(std_dev, i - 1),
                IF std_dev[i] = FZero THEN FOne ELSE std_dev[i])

FixStdDev(std_dev) == FixStdDevTo(std_dev, Len(std_dev))

\* row / std_dev, columns 1 to j
RECURSIVE WhitenRow(_, _, _)
WhitenRow(row, std_dev, j) ==
    IF j = 0 THEN <<>>
    ELSE Append(WhitenRow(row, std_dev, j - 1), FDiv(FromInt(row[j]), std_dev[j]))

\* ary / std_dev, each row divided by std_dev
Whiten(ary, std_dev) ==
    [r \in 1..Len(ary) |-> WhitenRow(ary[r], std_dev, Len(ary[r]))] \o <<>>

make_data_clusterable(training_array, feature_list, std_dev, remove_skips) ==
    LET fixed == FixedArray(training_array, feature_list, remove_skips)
        sd == FixStdDev(IF std_dev = None
                        THEN numpy_std(fixed, Len(feature_list))
                        ELSE std_dev)
    IN [clusterable_array |-> Whiten(fixed, sd),
        std_dev |-> sd,
        \* the caller's array when the call has returned
        training_array |->
            IF ArrayToFix(training_array, feature_list, remove_skips).shared
            THEN fixed ELSE training_array]

\* astype('uint8') of a float in the range of the raw values: the fraction
\* is dropped
AsUint8(x) == FTrunc(x) % 256

\* (row * std_dev).astype('uint8'), columns 1 to j
RECURSIVE RawRow(_, _, _)
RawRow(row, std_dev, j) ==
    IF j = 0 THEN <<>>
    ELSE Append(RawRow(row, std_dev, j - 1), AsUint8(FMul(row[j], std_dev[j])))

RECURSIVE RawTo(_, _, _)
RawTo(ary, std_dev, r) ==
    IF r = 0 THEN <<>>
    ELSE Append(RawTo(ary, std_dev, r - 1), RawRow(ary[r], std_dev, Len(ary[r])))

convert_to_raw(clusterable_array, feature_list, std_dev) ==
    LET raw_array == RawTo(clusterable_array, std_dev, Len(clusterable_array))
    IN IF Contains(feature_list, "DeletionTag")
       THEN spread_tag(raw_array, IndexOf(feature_list, "DeletionTag"), TRUE)
       ELSE raw_array

(***************************************************************************)
(* quantize.py: get_code_indices.                                          *)
(***************************************************************************)
\* the squared Euclidean distance of an observation to a code
RECURSIVE DistSqr(_, _, _)
DistSqr(obs, code, j) ==
    IF j = 0 THEN FZero
    ELSE LET diff == FSub(obs[j], code[j])
         IN FAdd(DistSqr(obs, code, j - 1), FMul(diff, diff))

\* scipy's vq for one observation: the codes are tried in order and a code
\* replaces the best one so far only when it is strictly nearer; the result
\* counts from 0.  The scan of the codes lo to hi is that of lo to mid
\* followed by that of the codes after mid, whose best code replaces the
\* one of the first only when it is strictly nearer.
RECURSIVE NearestFrom(_, _, _, _)
NearestFrom(obs, code_book, lo, hi) ==
    IF lo = hi
    THEN [best |-> lo - 1, low_dist |-> DistSqr(obs, code_book[lo], Len(obs))]
    ELSE LET mid == (lo + hi) \div 2
             first == NearestFrom(obs, code_book, lo, mid)
             second == NearestFrom(obs, code_book, mid + 1, hi)
         IN IF FLt(second.low_dist, first.low_dist) THEN second ELSE first

\* the codes of observations 1 to r
RECURSIVE VqTo(_, _, _)
VqTo(obs, code_book, r) ==
    IF r = 0 THEN <<>>
    ELSE Append(VqTo(obs, code_book, r - 1),
                NearestFrom(obs[r], code_book, 1, Len(code_book)).best)

vq(obs, code_book) == VqTo(obs, code_book, Len(obs))

\* get_code_indices that whitens the code book with the code book's own
\* standard deviations
get_code_indices_own_scale(chunk_data, raw_codes_, feature_list) ==
    LET data == make_data_clusterable(chunk_data, feature_list, None, FALSE)
        codes == make_data_clusterable(raw_codes_, feature_list, None, FALSE)
    IN [code_indices |-> vq(data.clusterable_array, codes.clusterable_array),
        std_dev |-> data.std_dev,
        code_std_dev |-> codes.std_dev]

get_code_indices(chunk_data, raw_codes_, feature_list) ==
    LET data == make_data_clusterable(chunk_data, feature_list, None, FALSE)
        codes == make_data_clusterable(raw_codes_, feature_list, data.std_dev, FALSE)
    IN [code_indices |-> vq(data.clusterable_array, codes.clusterable_array),
        std_dev |-> data.std_dev,
        code_std_dev |-> codes.std_dev]

(***************************************************************************)
(* The cmp.h5 file.  An alignment group holds one dataset per feature it   *)
(* has, all as long as its AlnArray, and after encoding a VQ dataset.      *)
(* rows[r][j] is row r of the dataset of feature j of code_book_features   *)
(* (read only when the group has that feature).                            *)
(***************************************************************************)
code_book_features == <<"DeletionTag", "InsertionQV", "MergeQV">>

AlnGroupPaths == <<"/ref000001/movie1", "/ref000002/movie1">>

MaxGroupLen == 3

StoreRows == { <<45, 5, 10>>, <<65, 9, 100>> }

CodeBooks ==
    { << <<45, 5, 10>>, <<65, 9, 30>> >>,
      << <<65, 9, 30>>, <<65, 9, 30>>, <<45, 5, 10>> >> }

\* the largest element of dtype uint8
Uint8Max == 255

\* a code book of n codes equal to code
Repeated(code, n) == [k \in 1..n |-> code] \o <<>>

\* a code book of 257 codes, the last of which has the number 256
WideCodeBooks == { Append(Repeated(<<45, 5, 10>>, Uint8Max + 1), <<65, 9, 30>>) }

Range(seq) == {seq[i] : i \in 1..Len(seq)}

Min(a, b) == IF a < b THEN a ELSE b

Matrices(rows, maxlen) == UNION {[1..n -> rows] : n \in 0..maxlen}

AlnGroup(has, rows) == [has |-> has, rows |-> rows, hasVQ |-> FALSE, VQ |-> <<>>]

FullStores ==
    [1..Len(AlnGroupPaths) ->
        {AlnGroup(Range(code_book_features), m) : m \in Matrices(StoreRows, MaxGroupLen)}]

\* the files where one group lacks one feature
LackingStores ==
    {[s EXCEPT ![i].has = @ \ {f}] :
        s \in FullStores, i \in 1..Len(AlnGroupPaths), f \in Range(code_book_features)}

(***************************************************************************)
(* utils.py: cmph5_chunker, a generator.  gen is where it stands: the      *)
(* group it is in (from 1), aln_group_pos, total_rows, and whether it has  *)
(* met max_observations.  The arrays it has made are in heap, in the order *)
(* they were made, and output_data is the one its name output_data is      *)
(* bound to (0 before line 105); a chunk holds its array by its place in   *)
(* heap, since the caller and the generator may hold the same array.       *)
(***************************************************************************)
\* max_observations=None
NoLimit == 0 - 1

GenStart ==
    [i |-> 1, pos |-> 0, total |-> 0, stopped |-> FALSE, heap |-> <<>>, output_data |-> 0]

\* numpy.zeros(shape=(n, ncols))
RECURSIVE ZeroRow(_)
ZeroRow(ncols) == IF ncols = 0 THEN <<>> ELSE Append(ZeroRow(ncols - 1), 0)

RECURSIVE Zeros(_, _)
Zeros(n, ncols) == IF n = 0 THEN <<>> ELSE Append(Zeros(n - 1, ncols), ZeroRow(ncols))

\* the features of feature_list that group lacks, in the order of the list
RECURSIVE Lacking(_, _, _)
Lacking(group, feature_list, j) ==
    IF j > Len(feature_list) THEN <<>>
    ELSE (IF feature_list[j] \in group.has THEN <<>> ELSE <<feature_list[j]>>)
         \o Lacking(group, feature_list, j + 1)

\* a chunker that yields only the chunks of chunk_size rows and leaves out
\* the shorter chunk at the end of a group
RECURSIVE ChunkerScanWholeChunks(_, _, _, _, _)
ChunkerScanWholeChunks(file, feature_list, chunk_size_, i, pos) ==
    IF i > Len(file) THEN [kind |-> "stop"]
    ELSE LET aln_group == file[i]
             lacking == Lacking(aln_group, feature_list, 1)
         IN IF pos = 0 /\ feature_list[1] \notin aln_group.has
            THEN [kind |-> "KeyError", name |-> feature_list[1]]
            ELSE IF pos + chunk_size_ <= Len(aln_group.rows)
            THEN IF lacking # <<>>
                 THEN [kind |-> "KeyError", name |-> lacking[1]]
                 ELSE [kind |-> "yield",
                       chunk |-> [aln_group_path |-> i,
                                  aln_group_start |-> pos,
                                  aln_group_end |-> pos + chunk_size_]]
            ELSE ChunkerScanWholeChunks(file, feature_list, chunk_size_, i + 1, 0)

\* where the generator goes from group i at aln_group_pos pos up to its next
\* yield: the place of the next chunk, the end of the file, or the KeyError
\* of a dataset that is not there
RECURSIVE ChunkerScan(_, _, _, _, _)
ChunkerScan(file, feature_list, chunk_size_, i, pos) ==
    IF i > Len(file) THEN [kind |-> "stop"]
    ELSE LET aln_group == file[i]
             aln_group_len == Len(aln_group.rows)
             num_rows_to_read == Min(aln_group_len - pos, chunk_size_)
             lacking == Lacking(aln_group, feature_list, 1)
         IN IF pos = 0 /\ feature_list[1] \notin aln_group.has
            THEN [kind |-> "KeyError", name |-> feature_list[1]]
            ELSE IF pos < aln_group_len
            THEN IF lacking # <<>>
                 THEN [kind |-> "KeyError", name |-> lacking[1]]
                 ELSE [kind |-> "yield",
                       chunk |-> [aln_group_path |-> i,
                                  aln_group_start |-> pos,
                                  aln_group_end |-> pos + num_rows_to_read]]
            ELSE ChunkerScan(file, feature_list, chunk_size_, i + 1, 0)

\* the elements of a in C order
RECURSIVE Ravel(_, _)
Ravel(a, r) == IF r = 0 THEN <<>> ELSE Ravel(a, r - 1) \o a[r]

\* numpy.resize(a, (new_rows, ncols)), a new array: the elements of a in C
\* order, repeated as often as it takes, in the new shape
RECURSIVE ResizeRow(_, _, _)
ResizeRow(flat, before, j) ==
    IF j = 0 THEN <<>>
    ELSE Append(ResizeRow(flat, before, j - 1), flat[((before + j - 1) % Len(flat)) + 1])

RECURSIVE ResizeFrom(_, _, _, _)
ResizeFrom(flat, new_rows, ncols, r) ==
    IF r > new_rows THEN <<>>
    ELSE <<ResizeRow(flat, (r - 1) * ncols, ncols)>>
         \o ResizeFrom(flat, new_rows, ncols, r + 1)

numpy_resize(a, new_rows, ncols) ==
    IF Len(a) = 0 THEN Zeros(new_rows, ncols)
    ELSE ResizeFrom(Ravel(a, Len(a)), new_rows, ncols, 1)

\* output_data[:num_rows_to_read, feature_i] = aln_group[feature_name][pos:pos + n],
\* from row r on
RECURSIVE ReadFeature(_, _, _, _, _, _)
ReadFeature(output_data_, aln_group, pos, num_rows_to_read, feature_i, r) ==
    IF r > Len(output_data_) THEN <<>>
    ELSE <<IF r <= num_rows_to_read
           THEN [output_data_[r] EXCEPT ![feature_i] = aln_group.rows[pos + r][feature_i]]
           ELSE output_data_[r]>>
         \o ReadFeature(output_data_, aln_group, pos, num_rows_to_read, feature_i, r + 1)

\* the loop over the features, from feature_i on: lines 112 to 116
RECURSIVE ReadFeatures(_, _, _, _, _)
ReadFeatures(output_data_, aln_group, pos, num_rows_to_read, feature_i) ==
    IF feature_i > Len(output_data_[1]) THEN output_data_
    ELSE ReadFeatures(
             ReadFeature(output_data_, aln_group, pos, num_rows_to_read, feature_i, 1),
             aln_group, pos, num_rows_to_read, feature_i + 1)

\* the arrays of the generator when it yields the chunk at place: the
\* first chunk of a group is read into the zeros of line 105, a later one
\* into the array the generator was left with; a chunk shorter than
\* chunk_size is a new array made by numpy.resize
OutputData(file, feature_list, chunk_size_, g, place) ==
    LET ncols == Len(feature_list)
        num_rows_to_read == place.aln_group_end - place.aln_group_start
        entered == place.aln_group_start = 0
        read == ReadFeatures(IF entered THEN Zeros(chunk_size_, ncols)
                                        ELSE g.heap[g.output_data],
                             file[place.aln_group_path], place.aln_group_start,
                             num_rows_to_read, 1)
        heap1 == IF entered THEN Append(g.heap, read)
                            ELSE [g.heap EXCEPT ![g.output_data] = read]
        id1 == IF entered THEN Len(g.heap) + 1 ELSE g.output_data
    IN IF num_rows_to_read < chunk_size_
       THEN [heap |-> Append(heap1, numpy_resize(read, num_rows_to_read, ncols)),
             output_data |-> Len(heap1) + 1]
       ELSE [heap |-> heap1, output_data |-> id1]

\* the generator run to its next yield: the chunk it yields, whose data is
\* array output_data of the heap, and the generator as it then stands
cmph5_chunker(file, feature_list, chunk_size_, g) ==
    IF g.stopped THEN [kind |-> "stop"]
    ELSE LET next == ChunkerScan(file, feature_list, chunk_size_, g.i, g.pos)
         IN IF next.kind # "yield" THEN next
            ELSE LET made == OutputData(file, feature_list, chunk_size_, g, next.chunk)
                 IN [kind |-> "yield",
                     chunk |-> [aln_group_path |-> next.chunk.aln_group_path,
                                aln_group_start |-> next.chunk.aln_group_start,
                                aln_group_end |-> next.chunk.aln_group_end,
                                data |-> made.heap[made.output_data],
                                array |-> made.output_data],
                     gen |-> [g EXCEPT !.heap = made.heap,
                                       !.output_data = made.output_data]]

\* a generator that clears the array it has just yielded and reads the
\* next chunk into it
AfterYieldSameArray(g, chunk, feature_list, chunk_size_, max_observations_) ==
    LET n == chunk.aln_group_end - chunk.aln_group_start
        stop == max_observations_ # NoLimit /\ g.total + n >= max_observations_
    IN [i |-> chunk.aln_group_path,
        pos |-> chunk.aln_group_end,
        total |-> g.total + n,
        stopped |-> stop,
        heap |-> IF stop THEN g.heap
                 ELSE [g.heap EXCEPT ![g.output_data] =
                          Zeros(chunk_size_, Len(feature_list))],
        output_data |-> g.output_data]

\* the generator g, which has yielded chunk, run on from the yield: lines
\* 123 to 129
AfterYield(g, chunk, feature_list, chunk_size_, max_observations_) ==
    LET n == chunk.aln_group_end - chunk.aln_group_start
        stop == max_observations_ # NoLimit /\ g.total + n >= max_observations_
    IN [i |-> chunk.aln_group_path,
        pos |-> chunk.aln_group_end,
        total |-> g.total + n,
        stopped |-> stop,
        heap |-> IF stop THEN g.heap
                 ELSE Append(g.heap, Zeros(chunk_size_, Len(feature_list))),
        output_data |-> IF stop THEN g.output_data ELSE Len(g.heap) + 1]

(***************************************************************************)
(* quantize.py: the writes of add_vqs_to_file to the cmp.h5 file.          *)
(***************************************************************************)
\* dataset[start:end] = values
SetSlice(dataset, start, values) ==
    [r \in 1..Len(dataset) |->
        IF r > start /\ r <= start + Len(values) THEN values[r - start] ELSE dataset[r]]

\* the VQ dataset has dtype uint8 (line 31) and chunk_indices are the
\* integers of vq.vq: what is stored of an integer beyond the type depends
\* on who converts it, numpy keeping its low 8 bits and HDF5 stopping at
\* the ends of the type
Uint8Conversions == {"wrap", "clamp"}

ToUint8(v, conversion) ==
    IF conversion = "wrap" THEN v % (Uint8Max + 1)
    ELSE IF v > Uint8Max THEN Uint8Max
    ELSE IF v < 0 THEN 0
    ELSE v

RECURSIVE StoredAs(_, _, _)
StoredAs(values, conversion, n) ==
    IF n = 0 THEN <<>>
    ELSE Append(StoredAs(values, conversion, n - 1), ToUint8(values[n], conversion))

write_vqs_to_cmph5(file, cmph5_chunk, chunk_indices, conversion) ==
    LET aln_group == file[cmph5_chunk.aln_group_path]
        created == IF aln_group.hasVQ THEN aln_group.VQ
                   ELSE [r \in 1..Len(aln_group.rows) |-> 0]
    IN [file EXCEPT ![cmph5_chunk.aln_group_path] =
            [aln_group EXCEPT !.hasVQ = TRUE,
                              !.VQ = SetSlice(created, cmph5_chunk.aln_group_start,
                                              StoredAs(chunk_indices, conversion,
                                                       Len(chunk_indices)))]]

overwrite_qvs_cmph5_chunk(file, chunk, code_indices, code_book, feature_list) ==
    LET aln_group == file[chunk.aln_group_path]
        full_feature_array ==
            [r \in 1..Len(code_indices) |-> code_book[code_indices[r] + 1]]
    IN [file EXCEPT ![chunk.aln_group_path].rows =
            SetSlice(aln_group.rows, chunk.aln_group_start, full_feature_array)]

\* a loop body that overwrites the features whatever overwrite_qvs says
EncodeWritesAlways(file, cmph5_chunk, chunk_code_indices, code_book, overwrite, conversion) ==
    overwrite_qvs_cmph5_chunk(
        write_vqs_to_cmph5(file, cmph5_chunk, chunk_code_indices, conversion),
        cmph5_chunk, chunk_code_indices, code_book, code_book_features)

\* the file after the loop body of add_vqs_to_file has handled one chunk
EncodeWrites(file, cmph5_chunk, chunk_code_indices, code_book, overwrite, conversion) ==
    LET written == write_vqs_to_cmph5(file, cmph5_chunk, chunk_code_indices,
                                      conversion)
    IN IF overwrite
       THEN overwrite_qvs_cmph5_chunk(written, cmph5_chunk, chunk_code_indices,
                                      code_book, code_book_features)
       ELSE written

\* 500000 in quantize.py, here of the size of the groups of the model
BUFFER_SIZE == 2

VARIABLES
    pc,                \* where the running command stands
    error,             \* the exception that ended the command
    store,             \* the cmp.h5 file
    store0,            \* the cmp.h5 file as the command found it
    overwrite_qvs,     \* add_vqs_to_file's argument
    raw_codes,         \* the code book read by read_code_book
    assigned,          \* what get_code_indices computed for each chunk
    vq_writes,         \* for each row of each group, how often its VQ was written
    chunk_size,        \* cmph5_chunker's arguments
    max_observations,
    gen,               \* cmph5_chunker's position
    chunks,            \* the chunks yielded so far
    reader,            \* which reader create_code_book uses
    num_observations,  \* the reader's argument
    training_array,    \* the reader's array
    warnings,          \* what log.warning was called with
    sam_file,          \* the records of the SAM file, and how many were read
    sam_pos,
    num_read_bases,    \* read_sam's counter
    training_in,       \* make_data_clusterable's training_array
    remove_skips,      \* and its remove_skips
    fixed_array,       \* its clusterable_array before whitening (line 40)
    clusterable,       \* what it returned
    raw_array,         \* what convert_to_raw returned
    tags_to_encode,    \* run_length_encode's argument
    rle_string         \* and what it returned

encVars == <<store, store0, overwrite_qvs, raw_codes, assigned, vq_writes>>

genVars == <<chunk_size, max_observations, gen, chunks>>

readVars == <<reader, num_observations, training_array, warnings, sam_file, sam_pos,
              num_read_bases>>

pureVars == <<training_in, remove_skips, fixed_array, clusterable, raw_array,
              tags_to_encode, rle_string>>

vars == <<pc, error, encVars, genVars, readVars, pureVars>>

NoError == [type |-> "none", args |-> <<>>]

NoWrites(file) == [i \in 1..Len(file) |-> [r \in 1..Len(file[i].rows) |-> 0]]

NoReader ==
    /\ reader = "none"
    /\ num_observations = 0
    /\ training_array = <<>>
    /\ warnings = <<>>
    /\ sam_file = <<>>
    /\ sam_pos = 0
    /\ num_read_bases = 0

NoResult == [clusterable_array |-> <<>>, std_dev |-> <<>>]

NoTransform ==
    /\ training_in = <<>>
    /\ remove_skips = FALSE
    /\ fixed_array = <<>>
    /\ clusterable = NoResult
    /\ raw_array = <<>>

NoTags ==
    /\ tags_to_encode = <<>>
    /\ rle_string = <<>>

NoEncoder(file) ==
    /\ store = file
    /\ store0 = file
    /\ overwrite_qvs = FALSE
    /\ raw_codes = <<>>
    /\ assigned = <<>>
    /\ vq_writes = NoWrites(file)

(***************************************************************************)
(* add_vqs_to_file on a cmp.h5 file.                                       *)
(***************************************************************************)
EncodeFrom(files) ==
    /\ pc = "encode"
    /\ error = NoError
    /\ store \in files
    /\ store0 = store
    /\ overwrite_qvs \in BOOLEAN
    /\ raw_codes = <<>>
    /\ assigned = <<>>
    /\ vq_writes = NoWrites(store)
    /\ chunk_size = BUFFER_SIZE
    /\ max_observations = NoLimit
    /\ gen = GenStart
    /\ chunks = <<>>
    /\ NoReader
    /\ NoTransform
    /\ NoTags

\* a file with every feature in every group
InitEncode == EncodeFrom(FullStores)

\* a file where a group lacks a feature
InitEncodeLacking == EncodeFrom(LackingStores)

\* read_code_book, and the file opened
ReadCodeBook ==
    /\ pc = "encode"
    /\ \E cb \in CodeBooks : raw_codes' = cb
    /\ pc' = "chunks"
    /\ UNCHANGED <<error, store, store0, overwrite_qvs, assigned, vq_writes, genVars,
                   readVars, pureVars>>

\* one turn of the loop over the chunks: the chunker gives the next chunk,
\* which is encoded and written, or it meets a group without one of the
\* datasets and its KeyError ends the command
EncodeChunk ==
    /\ pc = "chunks"
    /\ \E next \in {cmph5_chunker(store, code_book_features, chunk_size, gen)} :
          \/ /\ next.kind = "yield"
             /\ \E got \in {get_code_indices(next.chunk.data, raw_codes,
                                              code_book_features)} :
                LET cmph5_chunk == next.chunk
                    i == cmph5_chunk.aln_group_path
                IN /\ store' \in
                          {EncodeWrites(store, cmph5_chunk, got.code_indices, raw_codes,
                                        overwrite_qvs, conversion) :
                               conversion \in Uint8Conversions}
                   /\ chunks' = Append(chunks, cmph5_chunk)
                   /\ assigned' = Append(assigned, got)
                   /\ gen' = AfterYield(next.gen, cmph5_chunk, code_book_features,
                                         chunk_size, max_observations)
                   /\ vq_writes' =
                          [vq_writes EXCEPT ![i] =
                              [r \in 1..Len(vq_writes[i]) |->
                                  IF r > cmph5_chunk.aln_group_start
                                     /\ r <= cmph5_chunk.aln_group_end
                                  THEN vq_writes[i][r] + 1 ELSE vq_writes[i][r]]]
             /\ UNCHANGED <<pc, error>>
          \/ /\ next.kind = "KeyError"
             /\ pc' = "failed"
             /\ error' = [type |-> "KeyError", args |-> <<next.name>>]
             /\ UNCHANGED <<store, chunks, assigned, gen, vq_writes>>
    /\ UNCHANGED <<store0, overwrite_qvs, raw_codes, chunk_size, max_observations,
                   readVars, pureVars>>

\* the chunker is exhausted: cmph5_file.close()
EncodeClose ==
    /\ pc = "chunks"
    /\ cmph5_chunker(store, code_book_features, chunk_size, gen).kind = "stop"
    /\ pc' = "closed"
    /\ UNCHANGED <<error, encVars, genVars, readVars, pureVars>>

Next == ReadCodeBook \/ EncodeChunk \/ EncodeClose

\* read_code_book of a code book with more codes than a uint8 can number
ReadWideCodeBook ==
    /\ pc = "encode"
    /\ \E cb \in WideCodeBooks : raw_codes' = cb
    /\ pc' = "chunks"
    /\ UNCHANGED <<error, store, store0, overwrite_qvs, assigned, vq_writes, genVars,
                   readVars, pureVars>>

NextWide == ReadWideCodeBook \/ EncodeChunk \/ EncodeClose

Spec == InitEncode /\ [][Next]_vars

SpecLacking == InitEncodeLacking /\ [][Next]_vars

\* add_vqs_to_file without overwrite_qvs, with a code book of 257 codes
InitEncodeWide == EncodeFrom(FullStores) /\ ~overwrite_qvs

SpecWide == InitEncodeWide /\ [][NextWide]_vars

(***************************************************************************)
(* code_book.py: read_cmph5 and read_sam, the readers of create_code_book, *)
(* and cmph5_chunker called with any chunk_size and max_observations.      *)
(* A SAM record is the array of the values of its bases, one column per    *)
(* feature, as record.opt and char_to_qv or ord give them.                 *)
(***************************************************************************)
MaxObservations == 4

MaxChunkSize == 3

MaxRecords == 2

MaxRecordLen == 2

SamFiles ==
    UNION {[1..n -> Matrices(StoreRows, MaxRecordLen) \ {<<>>}] : n \in 0..MaxRecords}

InitReadCmph5 ==
    /\ pc = "read_cmph5"
    /\ reader = "cmph5"
    /\ \E file \in FullStores \cup LackingStores : NoEncoder(file)
    /\ num_observations \in 1..MaxObservations
    /\ chunk_size = num_observations
    /\ max_observations = num_observations
    /\ training_array = <<>>
    /\ sam_file = <<>>

InitChunker ==
    /\ pc = "chunks"
    /\ reader = "chunker"
    /\ \E file \in FullStores : NoEncoder(file)
    /\ num_observations = 0
    /\ chunk_size \in 1..MaxChunkSize
    /\ max_observations \in {NoLimit} \cup 1..MaxObservations
    /\ training_array = <<>>
    /\ sam_file = <<>>

InitReadSam ==
    /\ pc = "read_sam"
    /\ reader = "sam"
    /\ NoEncoder(<<>>)
    /\ num_observations \in 1..MaxObservations
    /\ chunk_size = 0
    /\ max_observations = NoLimit
    /\ training_array = Zeros(num_observations, Len(code_book_features))
    /\ sam_file \in SamFiles

InitRead ==
    /\ error = NoError
    /\ gen = GenStart
    /\ chunks = <<>>
    /\ warnings = <<>>
    /\ sam_pos = 0
    /\ num_read_bases = 0
    /\ NoTransform
    /\ NoTags
    /\ InitReadCmph5 \/ InitChunker \/ InitReadSam

check_for_features(file, feature_list) == Lacking(file[1], feature_list, 1)

\* read_cmph5 up to the call of the chunker
CheckForFeatures ==
    /\ pc = "read_cmph5"
    /\ LET missing_features == check_for_features(store, code_book_features)
       IN IF missing_features # <<>>
          THEN /\ pc' = "failed"
               /\ error' = [type |-> "ValueError", args |-> missing_features]
          ELSE /\ pc' = "chunks"
               /\ UNCHANGED error
    /\ UNCHANGED <<encVars, genVars, readVars, pureVars>>

\* the caller takes the next chunk from the chunker
ChunkerYield ==
    /\ pc = "chunks"
    /\ LET next == cmph5_chunker(store, code_book_features, chunk_size, gen)
       IN /\ next.kind = "yield"
          /\ chunks' = Append(chunks, next.chunk)
          /\ gen' = AfterYield(next.gen, next.chunk, code_book_features, chunk_size,
                                max_observations)
    /\ UNCHANGED <<pc, error, encVars, chunk_size, max_observations, readVars, pureVars>>

ChunkerKeyError ==
    /\ pc = "chunks"
    /\ LET next == cmph5_chunker(store, code_book_features, chunk_size, gen)
       IN /\ next.kind = "KeyError"
          /\ error' = [type |-> "KeyError", args |-> <<next.name>>]
    /\ pc' = "failed"
    /\ UNCHANGED <<encVars, genVars, readVars, pureVars>>

\* numpy.concatenate of the data of the chunks, as the arrays are when the
\* list is complete
RECURSIVE Concatenate(_, _, _)
Concatenate(heap, cs, n) ==
    IF n = 0 THEN <<>> ELSE Concatenate(heap, cs, n - 1) \o heap[cs[n].array]

\* read_cmph5 with the chunker exhausted: numpy.concatenate, which takes no
\* empty list
ReadCmph5Return ==
    /\ pc = "chunks"
    /\ reader = "cmph5"
    /\ cmph5_chunker(store, code_book_features, chunk_size, gen).kind = "stop"
    /\ IF chunks = <<>>
       THEN /\ pc' = "failed"
            /\ error' = [type |-> "ValueError", args |-> <<>>]
            /\ UNCHANGED training_array
       ELSE /\ pc' = "trained"
            /\ training_array' = Concatenate(gen.heap, chunks, Len(chunks))
            /\ UNCHANGED error
    /\ UNCHANGED <<encVars, genVars, reader, num_observations, warnings, sam_file,
                   sam_pos, num_read_bases, pureVars>>

ChunkerExhausted ==
    /\ pc = "chunks"
    /\ reader = "chunker"
    /\ cmph5_chunker(store, code_book_features, chunk_size, gen).kind = "stop"
    /\ pc' = "exhausted"
    /\ UNCHANGED <<error, encVars, genVars, readVars, pureVars>>

\* one turn of the loop of read_sam
ReadSamRecord ==
    /\ pc = "read_sam"
    /\ num_read_bases < num_observations
    /\ sam_pos < Len(sam_file)
    /\ LET numeric_values == sam_file[sam_pos + 1]
           kept == Min(Len(numeric_values), num_observations - num_read_bases)
       IN /\ training_array' =
                 SetSlice(training_array, num_read_bases,
                          [r \in 1..kept |-> numeric_values[r]])
          /\ num_read_bases' = num_read_bases + Len(numeric_values)
    /\ sam_pos' = sam_pos + 1
    /\ UNCHANGED <<pc, error, encVars, genVars, reader, num_observations, warnings,
                   sam_file, pureVars>>

\* read_sam after its loop: with too few bases it logs the warning and then
\* names training, which is not defined
ReadSamReturn ==
    /\ pc = "read_sam"
    /\ num_read_bases >= num_observations \/ sam_pos >= Len(sam_file)
    /\ IF num_read_bases < num_observations
       THEN /\ warnings' = Append(warnings, <<num_read_bases, num_observations>>)
            /\ pc' = "failed"
            /\ error' = [type |-> "NameError", args |-> <<"training">>]
       ELSE /\ pc' = "trained"
            /\ UNCHANGED <<warnings, error>>
    /\ UNCHANGED <<encVars, genVars, reader, num_observations, training_array,
                   sam_file, sam_pos, num_read_bases, pureVars>>

NextRead ==
    \/ CheckForFeatures
    \/ ChunkerYield
    \/ ChunkerKeyError
    \/ ReadCmph5Return
    \/ ChunkerExhausted
    \/ ReadSamRecord
    \/ ReadSamReturn

SpecRead == InitRead /\ [][NextRead]_vars

(***************************************************************************)
(* make_data_clusterable, and convert_to_raw of what it returned.          *)
(***************************************************************************)
MaxRows == 3

TransformRows == { <<45, 5, 10>>, <<65, 0, 35>>, <<67, 255, 100>>, <<65, 9, 40>> }

InitTransform ==
    /\ pc = "make_data_clusterable"
    /\ error = NoError
    /\ NoEncoder(<<>>)
    /\ chunk_size = 0
    /\ max_observations = NoLimit
    /\ gen = GenStart
    /\ chunks = <<>>
    /\ NoReader
    /\ training_in \in Matrices(TransformRows, MaxRows) \ {<<>>}
    /\ remove_skips = FALSE
    /\ fixed_array = <<>>
    /\ clusterable = NoResult
    /\ raw_array = <<>>
    /\ NoTags

MakeDataClusterable ==
    /\ pc = "make_data_clusterable"
    /\ \E skips \in BOOLEAN :
          /\ remove_skips' = skips
          /\ fixed_array' = FixedArray(training_in, code_book_features, skips)
          /\ \E returned \in {make_data_clusterable(training_in, code_book_features,
                                                     None, skips)} :
                /\ clusterable' = returned
                /\ training_in' = returned.training_array
    /\ pc' = "convert_to_raw"
    /\ UNCHANGED <<error, encVars, genVars, readVars, raw_array, tags_to_encode,
                   rle_string>>

ConvertToRaw ==
    /\ pc = "convert_to_raw"
    /\ raw_array' = convert_to_raw(clusterable.clusterable_array, code_book_features,
                                   clusterable.std_dev)
    /\ pc' = "raw"
    /\ UNCHANGED <<error, encVars, genVars, readVars, training_in, remove_skips,
                   fixed_array, clusterable, tags_to_encode, rle_string>>

NextTransform == MakeDataClusterable \/ ConvertToRaw

SpecTransform == InitTransform /\ [][NextTransform]_vars

(***************************************************************************)
(* quantize.py: run_length_encode.  A string is the sequence of its        *)
(* characters.                                                             *)
(***************************************************************************)
MaxTagLen == 4

Tags == {"N", "C", "T"}

\* the example of the docstring, NNNNNCNNTTC
DocTags == <<"N", "N", "N", "N", "N", "C", "N", "N", "T", "T", "C">>

\* a run long enough for a count of two digits
LongRun == [i \in 1..12 |-> "N"]

TagStrings == UNION {[1..n -> Tags] : n \in 0..MaxTagLen} \cup {DocTags, LongRun}

DigitChars == <<"0", "1", "2", "3", "4", "5", "6", "7", "8", "9">>

\* str(n) for n >= 0
RECURSIVE Str(_)
Str(n) ==
    IF n < 10 THEN <<DigitChars[n + 1]>>
    ELSE Str(n \div 10) \o <<DigitChars[(n % 10) + 1]>>

\* the length of the run of equal characters that starts at position i
RECURSIVE RunLength(_, _)
RunLength(str, i) ==
    IF i < Len(str) /\ str[i + 1] = str[i] THEN 1 + RunLength(str, i + 1) ELSE 1

\* itertools.groupby from position i on: the pairs (len(list(g)), str(k))
RECURSIVE GroupBy(_, _)
GroupBy(str, i) ==
    IF i > Len(str) THEN <<>>
    ELSE LET n == RunLength(str, i)
         IN << <<n, str[i]>> >> \o GroupBy(str, i + n)

RECURSIVE JoinRuns(_, _)
JoinRuns(rle_list, k) ==
    IF k > Len(rle_list) THEN <<>>
    ELSE (IF rle_list[k][1] > 1 THEN Str(rle_list[k][1]) ELSE <<>>)
         \o <<rle_list[k][2]>> \o JoinRuns(rle_list, k + 1)

run_length_encode(tags) == JoinRuns(GroupBy(tags, 1), 1)

InitRLE ==
    /\ pc = "run_length_encode"
    /\ error = NoError
    /\ NoEncoder(<<>>)
    /\ chunk_size = 0
    /\ max_observations = NoLimit
    /\ gen = GenStart
    /\ chunks = <<>>
    /\ NoReader
    /\ NoTransform
    /\ tags_to_encode \in TagStrings
    /\ rle_string = <<>>

RunLengthEncode ==
    /\ pc = "run_length_encode"
    /\ rle_string' = run_length_encode(tags_to_encode)
    /\ pc' = "encoded"
    /\ UNCHANGED <<error, encVars, genVars, readVars, training_in, remove_skips,
                   fixed_array, clusterable, raw_array, tags_to_encode>>

NextRLE == RunLengthEncode

SpecRLE == InitRLE /\ [][NextRLE]_vars

(***************************************************************************)
(* Properties of add_vqs_to_file.                                          *)
(***************************************************************************)
\* the features that some group of the file lacks
Absent(file) ==
    {f \in Range(code_book_features) : \E i \in 1..Len(file) : f \notin file[i].has}

Ended == pc \in {"closed", "failed"}

RowsOf(chunk) == chunk.aln_group_end - chunk.aln_group_start

\* C1: in a run of two or more chunks, every chunk after the first, and the
\* code book for it, is normalized with the scale computed from the first
\* chunk of the run.
C1_ScaleOfFirstChunk ==
    \A n \in 2..Len(assigned) :
        /\ assigned[n].std_dev = assigned[1].std_dev
        /\ assigned[n].code_std_dev = assigned[1].std_dev

\* C3: when a group lacks a column of the schema (here in a file whose
\* groups all have rows), no chunk is yielded and nothing is written, and the
\* run ends in an error that lists every absent column.
C3_MissingFeatureBeforeAnyChunk ==
    (Absent(store0) # {} /\ \A i \in 1..Len(store0) : Len(store0[i].rows) > 0) =>
        /\ chunks = <<>>
        /\ \A i \in 1..Len(store) : ~store[i].hasVQ /\ store[i].rows = store0[i].rows
            /\ Ended => pc = "failed" /\ Range(error.args) = Absent(store0)

\* the rows of group i that chunk n covers
InChunk(n, i, r) ==
    /\ chunks[n].aln_group_path = i
    /\ r > chunks[n].aln_group_start
    /\ r <= chunks[n].aln_group_end

\* C4: without overwrite_qvs every feature column of every group is as it
\* was before the run, after each chunk; with overwrite_qvs each row of a
\* handled chunk holds the raw code book row of the index assigned to it,
\* and the rows not yet handled are as they were.
C4_FeaturesKeptUnlessOverwrite ==
    /\ \A i \in 1..Len(store) : store[i].has = store0[i].has
    /\ ~overwrite_qvs => \A i \in 1..Len(store) : store[i].rows = store0[i].rows
    /\ overwrite_qvs =>
          \A i \in 1..Len(store) : \A r \in 1..Len(store[i].rows) :
              /\ \A n \in 1..Len(chunks) :
                    InChunk(n, i, r) =>
                        store[i].rows[r] =
                            raw_codes[assigned[n].code_indices[
                                          r - chunks[n].aln_group_start] + 1]
              /\ (\A n \in 1..Len(chunks) : ~InChunk(n, i, r)) =>
                    store[i].rows[r] = store0[i].rows[r]

\* two chunks handled, the second one writing its indices, in a run without
\* overwrite_qvs where a code book row differs from the row it stands for
C4_Witness ==
    /\ ~overwrite_qvs
    /\ Len(chunks) >= 2
    /\ \E i \in 1..Len(store) : \E r \in 1..Len(store[i].rows) :
          /\ store[i].hasVQ
          /\ vq_writes[i][r] = 1
          /\ raw_codes[store[i].VQ[r] + 1] # store0[i].rows[r]

\* C5: after a completed run every row of every group has had its index
\* written exactly once, and every index is in 0..K-1 for a code book of K rows.
C5_EveryRowIndexedInRange ==
    pc = "closed" =>
        \A i \in 1..Len(store) :
            /\ Len(store[i].rows) > 0 =>
                  store[i].hasVQ /\ Len(store[i].VQ) = Len(store[i].rows)
            /\ \A r \in 1..Len(store[i].rows) :
                  /\ vq_writes[i][r] = 1
                  /\ store[i].VQ[r] >= 0
                  /\ store[i].VQ[r] < Len(raw_codes)

\* a completed run over two groups, one of them read in more than one chunk
C5_Witness ==
    /\ pc = "closed"
    /\ Len(chunks) >= 3
    /\ \A i \in 1..Len(store) : Len(store[i].rows) > 0
    /\ \E i \in 1..Len(store) : \E r \in 1..Len(store[i].rows) : store[i].VQ[r] > 0

\* the transform the claim names, on one row: tag remap and merge clamp
C6_Fixed(row) ==
    [j \in 1..Len(row) |->
        IF code_book_features[j] = "DeletionTag"
        THEN IF \E a \in Range(TAG_ASSIGNMENTS) : a[1] = row[j]
             THEN (CHOOSE a \in Range(TAG_ASSIGNMENTS) : a[1] = row[j])[2]
             ELSE row[j]
        ELSE IF code_book_features[j] = "MergeQV" /\ row[j] >= MergeExtreme
        THEN MergeReplacement
        ELSE row[j]]

\* the row divided by the scale, columns 1 to j
RECURSIVE C6_Normalized(_, _, _)
C6_Normalized(fixed, scale, j) ==
    IF j = 0 THEN <<>>
    ELSE Append(C6_Normalized(fixed, scale, j - 1), FDiv(FromInt(fixed[j]), scale[j]))

\* the squared Euclidean distances of the row to codes 1 to k of raw_codes,
\* all under the same transform and scale
RECURSIVE C6_Dists(_, _, _)
C6_Dists(row, scale, k) ==
    IF k = 0 THEN <<>>
    ELSE Append(C6_Dists(row, scale, k - 1),
                DistSqr(row, C6_Normalized(C6_Fixed(raw_codes[k]), scale, Len(scale)),
                        Len(row)))

\* index (from 0) is the lowest index of a code of raw_codes nearest to row
C6_LowestNearest(row, index, scale) ==
    LET d == C6_Dists(C6_Normalized(C6_Fixed(row), scale, Len(scale)), scale,
                      Len(raw_codes))
    IN \A k \in 1..Len(raw_codes) :
          /\ ~FLt(d[k], d[index + 1])
          /\ k < index + 1 => FLt(d[index + 1], d[k])

\* C6: every row of a chunk gets the index of the code book row at minimum
\* Euclidean distance, the row and the code book under the same tag remap,
\* merge clamp and scale; of several nearest rows the lowest index.
C6_NearestCode ==
    \A n \in 1..Len(chunks) :
        /\ assigned[n].code_std_dev = assigned[n].std_dev
        /\ Len(assigned[n].code_indices) = RowsOf(chunks[n])
        /\ \A r \in 1..RowsOf(chunks[n]) :
              C6_LowestNearest(chunks[n].data[r], assigned[n].code_indices[r],
                               assigned[n].std_dev)

\* a chunk with a row at the same least distance from two codes, and a row
\* whose nearest code is not the first
C6_Witness ==
    \E n \in 1..Len(chunks) :
        /\ \E r \in 1..RowsOf(chunks[n]) :
              LET scale == assigned[n].std_dev
                  d == C6_Dists(C6_Normalized(C6_Fixed(chunks[n].data[r]), scale,
                                              Len(scale)),
                                scale, Len(raw_codes))
              IN /\ assigned[n].code_indices[r] = 0
                 /\ Len(raw_codes) > 2
                 /\ d[1] = d[2]
                 /\ FLt(d[1], d[3])
        /\ \E r \in 1..RowsOf(chunks[n]) : assigned[n].code_indices[r] > 0

(***************************************************************************)
(* Properties of the chunker and of the readers.                           *)
(***************************************************************************)
\* the places <<group, row>> of the rows of groups i.. of the file, in order
RECURSIVE PlacesFrom(_, _)
PlacesFrom(file, i) ==
    IF i > Len(file) THEN <<>>
    ELSE [r \in 1..Len(file[i].rows) |-> <<i, r>>] \o PlacesFrom(file, i + 1)

\* the places of the rows of the first n chunks, in the order of their yield
RECURSIVE PlacesOf(_, _)
PlacesOf(cs, n) ==
    IF n = 0 THEN <<>>
    ELSE PlacesOf(cs, n - 1)
         \o [r \in 1..RowsOf(cs[n]) |-> <<cs[n].aln_group_path, cs[n].aln_group_start + r>>]

TotalRows(file) == Len(PlacesFrom(file, 1))

\* min(L, cap)
Capped(file) ==
    IF max_observations = NoLimit THEN TotalRows(file)
    ELSE Min(TotalRows(file), max_observations)

ChunkerDone ==
    /\ pc \in {"chunks", "trained", "exhausted"}
    /\ cmph5_chunker(store, code_book_features, chunk_size, gen).kind = "stop"

\* C2: the chunks cover the first min(L, cap) rows of the file in its order,
\* each row once; the rows yielded never exceed the cap and no chunk is
\* yielded once they have reached it.
C2_ChunksCoverRowsUpToCap ==
    (reader \in {"chunker", "cmph5"} /\ Absent(store) = {}) =>
        /\ PlacesOf(chunks, Len(chunks))
              = SubSeq(PlacesFrom(store, 1), 1, Len(PlacesOf(chunks, Len(chunks))))
        /\ Len(PlacesOf(chunks, Len(chunks))) <= Capped(store)
        /\ \A n \in 1..Len(chunks) : Len(PlacesOf(chunks, n - 1)) < Capped(store)
        /\ ChunkerDone => Len(PlacesOf(chunks, Len(chunks))) = Capped(store)

RECURSIVE TotalBases(_, _)
TotalBases(records, n) ==
    IF n = 0 THEN 0 ELSE TotalBases(records, n - 1) + Len(records[n])

Available ==
    IF reader = "cmph5" THEN TotalRows(store) ELSE TotalBases(sam_file, Len(sam_file))

\* C7: a reader asked for more observations than there are rows warns with
\* the two counts and returns an array of the rows there are; with rows
\* enough it returns an array of num_observations rows.
C7_PartialTrainingWarned ==
    (/\ reader \in {"cmph5", "sam"}
     /\ Absent(store) = {}
     /\ Available > 0
     /\ pc \in {"trained", "failed"}) =>
        /\ pc = "trained"
        /\ IF num_observations > Available
           THEN /\ warnings = << <<Available, num_observations>> >>
                /\ Len(training_array) = Available
           ELSE /\ warnings = <<>>
                /\ Len(training_array) = num_observations

(***************************************************************************)
(* Properties of the transforms.                                           *)
(***************************************************************************)
TagSymbols == {TAG_ASSIGNMENTS[k][1] : k \in 1..Len(TAG_ASSIGNMENTS)}

\* C8: without remove_skips, convert_to_raw of the normalized array and its
\* scale gives back the array: within rounding in every column that is
\* neither the tag nor a merge value the clamp altered, and exactly for
\* every tag of the symbol set.
C8_RoundTrip ==
    (pc = "raw" /\ ~remove_skips) =>
        /\ Len(raw_array) = Len(training_in)
        /\ \A r \in 1..Len(training_in) : \A j \in 1..Len(code_book_features) :
              LET x == training_in[r][j]
                  y == raw_array[r][j]
              IN IF code_book_features[j] = "DeletionTag"
                 THEN x \in TagSymbols => y = x
                 ELSE IF code_book_features[j] = "MergeQV" /\ fixed_array[r][j] # x
                 THEN TRUE
                 ELSE Abs(y - x) <= 1

\* C9: normalization replaces every MergeQV value at or above 30 by 30 and
\* leaves the values below 30 as they are, so that no MergeQV value exceeds
\* 30 before scaling.
C9_MergeClampedAt30 ==
    LET merge == IndexOf(code_book_features, "MergeQV")
    IN pc \in {"convert_to_raw", "raw"} =>
        /\ \A r \in 1..Len(fixed_array) : fixed_array[r][merge] <= MergeReplacement
        /\ ~remove_skips =>
              \A r \in 1..Len(training_in) :
                  fixed_array[r][merge] =
                      IF training_in[r][merge] >= MergeReplacement
                      THEN MergeReplacement
                      ELSE training_in[r][merge]

(***************************************************************************)
(* Properties of run_length_encode.                                        *)
(***************************************************************************)
\* the run length followed by the symbol, for every maximal run from i on
RECURSIVE C10_CountThenSymbol(_, _)
C10_CountThenSymbol(str, i) ==
    IF i > Len(str) THEN <<>>
    ELSE LET n == RunLength(str, i)
         IN Str(n) \o <<str[i]>> \o C10_CountThenSymbol(str, i + n)

IsDigit(c) == \E d \in 1..Len(DigitChars) : DigitChars[d] = c

DigitValue(c) == (CHOOSE d \in 1..Len(DigitChars) : DigitChars[d] = c) - 1

\* the count-symbol pairs of str from i on expanded, count being the number
\* read so far; a symbol without a count is no pair and stays as "?"
RECURSIVE C10_Expand(_, _, _, _)
C10_Expand(str, i, count, digits) ==
    IF i > Len(str) THEN <<>>
    ELSE IF IsDigit(str[i])
    THEN C10_Expand(str, i + 1, 10 * count + DigitValue(str[i]), digits + 1)
    ELSE (IF digits = 0 THEN <<"?">> ELSE [k \in 1..count |-> str[i]])
         \o C10_Expand(str, i + 1, 0, 0)

\* C10: the encoding is, run by run, the run length followed by the symbol,
\* also for a run of length 1, so that NNNNNCNNTTC gives 5N1C2N2T1C, and
\* expanding the count-symbol pairs gives back the tags.
C10_CountWrittenForEveryRun ==
    pc = "encoded" =>
        /\ rle_string = C10_CountThenSymbol(tags_to_encode, 1)
        /\ tags_to_encode = DocTags =>
              rle_string = <<"5", "N", "1", "C", "2", "N", "2", "T", "1", "C">>
        /\ C10_Expand(rle_string, 1, 0, 0) = tags_to_encode

(***************************************************************************)
(* The chunks of cmph5_chunker.                                            *)
(***************************************************************************)
\* the rows [start, end) of the group of chunk c, as the file has them
C11_RowsOfFile(c) ==
    [r \in 1..(c.aln_group_end - c.aln_group_start) |->
        store[c.aln_group_path].rows[c.aln_group_start + r]]

\* C11: every chunk lies within one group, the chunks of a group follow one
\* another from offset 0, each has chunk_size rows unless it is the last of
\* its group, which may have fewer, and the data of each chunk is the rows
\* [start, end) of its group in the file, when it is yielded and still when
\* later chunks have been produced.
C11_ChunksOfOneGroupWithTheirRows ==
    \A k \in 1..Len(chunks) :
        LET c == chunks[k]
            aln_group_len == Len(store[c.aln_group_path].rows)
        IN /\ 0 <= c.aln_group_start
           /\ c.aln_group_start < c.aln_group_end
           /\ c.aln_group_end <= aln_group_len
           /\ IF k > 1 /\ chunks[k - 1].aln_group_path = c.aln_group_path
              THEN c.aln_group_start = chunks[k - 1].aln_group_end
              ELSE c.aln_group_start = 0
           /\ \/ RowsOf(c) = chunk_size
              \/ RowsOf(c) < chunk_size /\ c.aln_group_end = aln_group_len
           /\ c.data = C11_RowsOfFile(c)
           /\ gen.heap[c.array] = C11_RowsOfFile(c)

\* a chunk shorter than chunk_size and a chunk read after another of its
\* group have both been followed by a later chunk
C11_Witness ==
    /\ reader = "chunker"
    /\ \E k \in 1..Len(chunks) :
           k < Len(chunks) /\ RowsOf(chunks[k]) < chunk_size
    /\ \E k \in 1..Len(chunks) :
           k < Len(chunks) /\ chunks[k].aln_group_start > 0
    /\ \E k \in 1..Len(chunks) :
           \E r \in 1..RowsOf(chunks[k]) : gen.heap[chunks[k].array][r] # Zeros(1, 3)[1]

(***************************************************************************)
(* The VQ dataset.                                                         *)
(***************************************************************************)
\* C12: for every chunk written, the VQ dataset holds at each row of the
\* chunk the index get_code_indices assigned to it, whatever the number of
\* codes, and the writes of the other chunks leave it so.
C12_StoredIndexIsAssignedIndex ==
    \A n \in 1..Len(chunks) :
        LET c == chunks[n]
        IN /\ store[c.aln_group_path].hasVQ
           /\ \A r \in 1..RowsOf(c) :
                  store[c.aln_group_path].VQ[c.aln_group_start + r]
                      = assigned[n].code_indices[r]

(***************************************************************************)
(* The rows make_data_clusterable keeps.                                   *)
(***************************************************************************)
\* a row whose InsertionQV is neither the skip nor the deletion value
C13_Kept(row) ==
    LET sentinel == row[IndexOf(code_book_features, "InsertionQV")]
    IN sentinel # 0 /\ sentinel # 255

\* row with its tag spread and its MergeQV fixed
C13_FixedRow(row) == FixedArray(<<row>>, code_book_features, FALSE)[1]

C13_RowsKept ==
    pc \in {"convert_to_raw", "raw"} =>
        LET kept == SelectSeq(training_in, C13_Kept)
            returned == clusterable.clusterable_array
        IN IF remove_skips
           THEN /\ Len(returned) = Len(kept)
                /\ Len(fixed_array) = Len(kept)
                /\ \A r \in 1..Len(kept) :
                       /\ fixed_array[r] = C13_FixedRow(kept[r])
                       /\ C13_Kept(fixed_array[r])
                       /\ returned[r] = WhitenRow(fixed_array[r], clusterable.std_dev,
                                                  Len(code_book_features))
           ELSE Len(returned) = Len(training_in)

\* C13: with remove_skips the matrix returned holds, in their order, the
\* rows of the input whose InsertionQV is neither 0 nor 255, and only
\* those; without it the matrix has as many rows as the input; and the
\* call leaves the caller's matrix as it was.
C13_SentinelRowsRemovedInputKept ==
    /\ []C13_RowsKept
    /\ [][training_in' = training_in]_vars

\* rows with InsertionQV 0 and 255 have been removed from between rows that
\* were kept
C13_Witness ==
    /\ pc = "convert_to_raw"
    /\ remove_skips
    /\ Len(training_in) = 3
    /\ C13_Kept(training_in[1])
    /\ ~C13_Kept(training_in[2])
    /\ C13_Kept(training_in[3])
    /\ Len(clusterable.clusterable_array) = 2
====
